---- MODULE Spec2Model ----
(***************************************************************************)
(* A model of generator/randomizerinterface.py: the RandomizerInterface    *)
(* class that sits between the web forms and the Jets of Time randomizer.  *)
(*                                                                         *)
(* Python values are encoded as follows.                                   *)
(*   - a str whose characters matter (a name, a seed, a buffer) is a       *)
(*     sequence of one-character strings; the string of an enum value of   *)
(*     the randomizer is one atom;                                         *)
(*   - an Optional value is a set: {} is None, {v} is the value v;         *)
(*   - a dict is a sequence of <<key, value>> pairs in insertion order;    *)
(*   - an object that is passed by reference (a Settings object, the       *)
(*     module-level enums_map) lives in a store and is named by its id.    *)
(***************************************************************************)
EXTENDS Integers, Sequences, FiniteSets, TLC

VARIABLES
    heap,      \* Settings objects by identity: id -> fields
    rnd,       \* self.randomizer: its settings (a reference), config, call count
    last,      \* the call that was made last: operation, arguments, outcome
    store,     \* the module-level enums_map object
    held,      \* per request: the reference get_enums_map returned to it
    expected,  \* per request: the mapping it was given, with its own changes
    arg,       \* input of a pure (static/class) method
    ret        \* its return value

vars == <<heap, rnd, last, store, held, expected, arg, ret>>

(***************************************************************************)
(* Bounds of the model.                                                    *)
(***************************************************************************)
MaxNameLen == 6        \* longest character name tried
MaxInt == 9            \* clamp arguments range over -1 .. MaxInt
MaxObjectives == 3     \* longest config.objectives tried
MaxCalls == 2          \* set_random_config calls counted per instance

(***************************************************************************)
(* Python helpers.                                                         *)
(***************************************************************************)
None == {}
Some(v) == {v}
IsNone(o) == o = {}
Val(o) == CHOOSE v \in o : TRUE

Min2(a, b) == IF a <= b THEN a ELSE b
Max2(a, b) == IF a >= b THEN a ELSE b

SeqsUpTo(S, n) == UNION {[1..k -> S] : k \in 0..n}

\* dict operations on insertion-ordered sequences of <<key, value>>
DictKeys(d) == {d[i][1] : i \in 1..Len(d)}
DictIndex(d, k) == CHOOSE i \in 1..Len(d) : d[i][1] = k
DictGet(d, k) == d[DictIndex(d, k)][2]
DictSet(d, k, v) ==
    IF k \in DictKeys(d)
    THEN [d EXCEPT ![DictIndex(d, k)] = <<k, v>>]
    ELSE Append(d, <<k, v>>)
DictPop(d, k) ==
    IF k \in DictKeys(d)
    THEN LET i == DictIndex(d, k)
         IN  SubSeq(d, 1, i - 1) \o SubSeq(d, i + 1, Len(d))
    ELSE d

\* str(n) of a non-negative int: its decimal digits
DigitChar(n) == <<"0", "1", "2", "3", "4", "5", "6", "7", "8", "9">>[n + 1]
RECURSIVE StrOfNat(_)
StrOfNat(n) ==
    IF n < 10 THEN <<DigitChar(n)>>
    ELSE Append(StrOfNat(n \div 10), DigitChar(n % 10))

(***************************************************************************)
(* clamp (static)                                                          *)
(***************************************************************************)
clamp_swapped(value, min_val, max_val) == Min2(min_val, Max2(value, max_val))

clamp(value, min_val, max_val) == Max2(min_val, Min2(value, max_val))

(***************************************************************************)
(* get_character_name (static)                                             *)
(***************************************************************************)
Letters == {"a", "Z"}
Digits == {"7"}
Others == {"-"}
NameChars == Letters \cup Digits \cup Others

\* str.isalnum(): non-empty, and every character a letter or a digit
isalnum(s) == Len(s) > 0 /\ \A i \in 1..Len(s) : s[i] \in Letters \cup Digits

get_character_name_len6(name, default_name) ==
    IF IsNone(name) THEN default_name
    ELSE IF Val(name) = <<>> \/ Len(Val(name)) > 6 \/ ~isalnum(Val(name))
         THEN default_name
         ELSE Val(name)

get_character_name(name, default_name) ==
    IF IsNone(name) THEN default_name
    ELSE IF Val(name) = <<>> \/ Len(Val(name)) > 5 \/ ~isalnum(Val(name))
         THEN default_name
         ELSE Val(name)

(***************************************************************************)
(* get_web_spoiler_log (static)                                            *)
(*                                                                         *)
(* settings: [gameflags, num_objectives]; config: [objectives,             *)
(* char_assign_dict, reassign, key_item_locations, boss_assign_dict,       *)
(* twin_name, proof].  Values of the randomizer's enums are tokens and     *)
(* str(x) of such a value is written <<"str", x>>.                         *)
(***************************************************************************)
StrOf(x) == <<"str", x>>

ObjectivePrefix == <<"O", "b", "j", "e", "c", "t", "i", "v", "e", " ">>

\* for ind, objective in enumerate(config.objectives): break at ind >= num_objs
RECURSIVE ObjectivesLoop_offbyone(_, _, _, _)
ObjectivesLoop_offbyone(objectives, num_objs, ind, acc) ==
    IF ind >= Len(objectives) THEN acc
    ELSE IF ind > num_objs THEN acc
    ELSE ObjectivesLoop_offbyone(objectives, num_objs, ind + 1,
            Append(acc, [name |-> ObjectivePrefix \o StrOfNat(ind + 1),
                         desc |-> objectives[ind + 1]]))

RECURSIVE ObjectivesLoop(_, _, _, _)
ObjectivesLoop(objectives, num_objs, ind, acc) ==
    IF ind >= Len(objectives) THEN acc
    ELSE IF ind >= num_objs THEN acc
    ELSE ObjectivesLoop(objectives, num_objs, ind + 1,
            Append(acc, [name |-> ObjectivePrefix \o StrOfNat(ind + 1),
                         desc |-> objectives[ind + 1]]))

CharacterData(config) ==
    [i \in 1..Len(config.char_assign_dict) |->
        LET recruit_spot == config.char_assign_dict[i][1]
            held_char == config.char_assign_dict[i][2]
        IN  [location |-> StrOf(recruit_spot),
             character |-> StrOf(held_char),
             reassign |-> StrOf(config.reassign[held_char])]]

KeyItemData(config) ==
    [i \in 1..Len(config.key_item_locations) |->
        [location |-> StrOf(config.key_item_locations[i][1]),
         key |-> StrOf(config.key_item_locations[i][2])]]

BossData(config) ==
    [i \in 1..Len(config.boss_assign_dict) |->
        LET location == config.boss_assign_dict[i][1]
            boss == config.boss_assign_dict[i][2]
        IN  [location |-> StrOf(location),
             boss |-> IF boss = "TWIN_BOSS"
                      THEN <<"Twin ", StrOf(config.twin_name)>>
                      ELSE StrOf(boss)]]

\* str.splitlines() for "\n" line ends: the text between the line ends, and no
\* empty last line
SplitLines(text) ==
    LET ends == SelectSeq([i \in 1..Len(text) |-> i], LAMBDA i : text[i] = "\n")
        From(k) == IF k = 1 THEN 1 ELSE ends[k - 1] + 1
        To(k) == IF k <= Len(ends) THEN ends[k] - 1 ELSE Len(text)
        n == IF From(Len(ends) + 1) > Len(text) THEN Len(ends) ELSE Len(ends) + 1
    IN  [k \in 1..n |-> SubSeq(text, From(k), To(k))]

IsDigit(c) == c \in {"0", "1", "2", "3", "4", "5", "6", "7", "8", "9"}
IsSpace(c) == c \in {" ", "\t"}

RECURSIVE LeadingSpaces(_)
LeadingSpaces(s) ==
    IF s # <<>> /\ IsSpace(Head(s)) THEN 1 + LeadingSpaces(Tail(s)) ELSE 0

\* where the prefix (GO|\d?): ends in the line, 0 when the line has none
SpherePrefixEnd(line) ==
    IF Len(line) >= 3 /\ line[1] = "G" /\ line[2] = "O" /\ line[3] = ":" THEN 3
    ELSE IF Len(line) >= 2 /\ IsDigit(line[1]) /\ line[2] = ":" THEN 2
    ELSE IF Len(line) >= 1 /\ line[1] = ":" THEN 1
    ELSE 0

\* rgx.search(line) for ((?P<sphere>GO|(\d?)):\s*)?(?P<desc>.+): the groupdict
\* in a one-element set, or the empty set when the line does not match
RegexSearch(line) ==
    IF line = <<>> THEN None
    ELSE LET e == SpherePrefixEnd(line)
             rest == SubSeq(line, e + 1, Len(line))
         IN  IF e = 0 \/ rest = <<>>
             THEN Some([sphere |-> None, desc |-> line])
             ELSE LET k == LeadingSpaces(rest)
                      skip == IF k = Len(rest) THEN k - 1 ELSE k
                  IN  Some([sphere |-> Some(SubSeq(line, 1, e - 1)),
                            desc |-> SubSeq(rest, skip + 1, Len(rest))])

RECURSIVE SphereData(_, _)
SphereData(lines, acc) ==
    IF lines = <<>> THEN acc
    ELSE LET m == RegexSearch(Head(lines))
         IN  SphereData(Tail(lines), IF IsNone(m) THEN acc ELSE Append(acc, Val(m)))

get_web_spoiler_log(settings, config) ==
    LET objectives ==
            IF "BUCKET_LIST" \in settings.gameflags
            THEN ObjectivesLoop(config.objectives, settings.num_objectives, 0, <<>>)
            ELSE <<>>
    IN  << <<"characters", CharacterData(config)>>,
           <<"key_items", KeyItemData(config)>>,
           <<"bosses", BossData(config)>>,
           <<"objectives", objectives>>,
           <<"spheres", SphereData(SplitLines(config.proof), <<>>)>> >>

(***************************************************************************)
(* enums_map (module level), get_enums_map, get_inv_enums_map              *)
(*                                                                         *)
(* A value of enums_map is [kind |-> "list", items |-> <<...>>] or         *)
(* [kind |-> "dict", items |-> <<k, v>> pairs].  str() of two different    *)
(* members of a randosettings enum gives two different strings.            *)
(***************************************************************************)
ListOf(items) == [kind |-> "list", items |-> items]
DictOf(items) == [kind |-> "dict", items |-> items]

enums_map ==
    << <<"game_mode", ListOf(<<"GameMode.STANDARD", "GameMode.LOST_WORLDS",
            "GameMode.ICE_AGE", "GameMode.LEGACY_OF_CYRUS", "GameMode.VANILLA_RANDO">>)>>,
       <<"shopprices", ListOf(<<"ShopPrices.NORMAL", "ShopPrices.MOSTLY_RANDOM",
            "ShopPrices.FULLY_RANDOM", "ShopPrices.FREE">>)>>,
       <<"item_difficulty", ListOf(<<"Difficulty.EASY", "Difficulty.NORMAL",
            "Difficulty.HARD">>)>>,
       <<"enemy_difficulty", ListOf(<<"Difficulty.NORMAL", "Difficulty.HARD">>)>>,
       <<"techorder", ListOf(<<"TechOrder.NORMAL", "TechOrder.FULL_RANDOM",
            "TechOrder.BALANCED_RANDOM">>)>>,
       <<"gameflags", DictOf(<<
            <<"disable_glitches", "GameFlags.FIX_GLITCH">>,
            <<"boss_rando", "GameFlags.BOSS_RANDO">>,
            <<"boss_scaling", "GameFlags.BOSS_SCALE">>,
            <<"zeal", "GameFlags.ZEAL_END">>,
            <<"early_pendant", "GameFlags.FAST_PENDANT">>,
            <<"locked_chars", "GameFlags.LOCKED_CHARS">>,
            <<"unlocked_magic", "GameFlags.UNLOCKED_MAGIC">>,
            <<"tab_treasures", "GameFlags.TAB_TREASURES">>,
            <<"chronosanity", "GameFlags.CHRONOSANITY">>,
            <<"char_rando", "GameFlags.CHAR_RANDO">>,
            <<"healing_item_rando", "GameFlags.HEALING_ITEM_RANDO">>,
            <<"gear_rando", "GameFlags.GEAR_RANDO">>,
            <<"mystery_seed", "GameFlags.MYSTERY">>,
            <<"epoch_fail", "GameFlags.EPOCH_FAIL">>,
            <<"duplicate_characters", "GameFlags.DUPLICATE_CHARS">>,
            <<"duplicate_duals", "GameFlags.DUPLICATE_TECHS">>,
            <<"unlocked_skyways", "GameFlags.UNLOCKED_SKYGATES">>,
            <<"add_sunkeep_spot", "GameFlags.ADD_SUNKEEP_SPOT">>,
            <<"add_bekkler_spot", "GameFlags.ADD_BEKKLER_SPOT">>,
            <<"add_cyrus_spot", "GameFlags.ADD_CYRUS_SPOT">>,
            <<"restore_tools", "GameFlags.RESTORE_TOOLS">>,
            <<"add_ozzie_spot", "GameFlags.ADD_OZZIE_SPOT">>,
            <<"restore_johnny_race", "GameFlags.RESTORE_JOHNNY_RACE">>,
            <<"add_racelog_spot", "GameFlags.ADD_RACELOG_SPOT">>,
            <<"remove_black_omen_spot", "GameFlags.REMOVE_BLACK_OMEN_SPOT">>,
            <<"split_arris_dome", "GameFlags.SPLIT_ARRIS_DOME">>,
            <<"vanilla_robo_ribbon", "GameFlags.VANILLA_ROBO_RIBBON">>,
            <<"vanilla_desert", "GameFlags.VANILLA_DESERT">>,
            <<"use_antilife", "GameFlags.USE_ANTILIFE">>,
            <<"tackle_effects", "GameFlags.TACKLE_EFFECTS_ON">>,
            <<"starters_sufficient", "GameFlags.STARTERS_SUFFICIENT">>,
            <<"bucket_list", "GameFlags.BUCKET_LIST">>,
            <<"rocksanity", "GameFlags.ROCKSANITY">>,
            <<"tech_damage_rando", "GameFlags.TECH_DAMAGE_RANDO">>,
            <<"sightscope_always_on", "GameFlags.VISIBLE_HEALTH">>,
            <<"boss_sightscope", "GameFlags.BOSS_SIGHTSCOPE">>,
            <<"fast_tabs", "GameFlags.FAST_TABS">>,
            <<"free_menu_glitch", "GameFlags.FREE_MENU_GLITCH">> >>)>>,
       <<"roflags", DictOf(<<
            <<"boss_spot_hp", "ROFlags.BOSS_SPOT_HP">>,
            <<"legacy_boss_placement", "ROFlags.PRESERVE_PARTS">> >>)>> >>

\* the id of the module-level object that the name enums_map is bound to
EnumsMapRef == "enums_map"

\* get_enums_map returns the module-level object itself, not a copy
get_enums_map == EnumsMapRef

Indices(q) == [i \in 1..Len(q) |-> i]

\* {str(v): k for k, v in mapping.items()}: a value that occurs again keeps its first
\* place in the new dict and takes the last key it occurs with
InvertItems_unswapped(items) == items

InvertItems(items) ==
    LET firsts == SelectSeq(Indices(items),
                    LAMBDA i : \A j \in 1..(i - 1) : items[j][2] # items[i][2])
        LastWith(v) == CHOOSE i \in 1..Len(items) :
                          /\ items[i][2] = v
                          /\ \A j \in (i + 1)..Len(items) : items[j][2] # v
    IN  [p \in 1..Len(firsts) |->
            LET v == items[firsts[p]][2]
            IN  <<v, items[LastWith(v)][1]>>]

\* {key: ... for key, mapping in enums_map.items() if isinstance(mapping, Dict)}
InvertEntries(entries) ==
    LET dicts == SelectSeq(entries, LAMBDA e : e[2].kind = "dict")
    IN  [p \in 1..Len(dicts) |-> <<dicts[p][1], InvertItems(dicts[p][2].items)>>]

get_inv_enums_map(m) == InvertEntries(m)

(***************************************************************************)
(* Settings objects, forms, and the randomizer the interface wraps.        *)
(***************************************************************************)
EmptyStr == <<>>

CronoName == <<"C", "r", "o", "n", "o">>
MarleName == <<"M", "a", "r", "l", "e">>
LuccaName == <<"L", "u", "c", "c", "a">>
RoboName == <<"R", "o", "b", "o">>
FrogName == <<"F", "r", "o", "g">>
AylaName == <<"A", "y", "l", "a">>
MagusName == <<"M", "a", "g", "u", "s">>
EpochName == <<"E", "p", "o", "c", "h">>

\* a Settings object as the randomizer library constructs it
NewSettings(seed, gameflags) ==
    [seed |-> seed,
     gameflags |-> gameflags,
     cosmetic_flags |-> {},
     names |-> <<CronoName, MarleName, LuccaName, RoboName,
                 FrogName, AylaName, MagusName, EpochName>>,
     ctoptions |-> [stereo_audio |-> TRUE, save_menu_cursor |-> FALSE,
                    save_battle_cursor |-> FALSE, skill_item_info |-> TRUE,
                    consistent_paging |-> FALSE, battle_speed |-> 4,
                    menu_background |-> 0, battle_msg_speed |-> 4,
                    battle_gauge_style |-> 1]]

\* cos_flag_dict
cos_flag_dict ==
    << <<"reduce_flashes", "REDUCE_FLASH">>,
       <<"zenan_alt_battle_music", "ZENAN_ALT_MUSIC">>,
       <<"death_peak_alt_music", "DEATH_PEAK_ALT_MUSIC">>,
       <<"quiet_mode", "QUIET_MODE">>,
       <<"auto_run", "AUTORUN">> >>

\* a RomForm's cleaned_data
RomForm(cos, nm, b, speed, background, msg, gauge) ==
    [cos |-> cos,
     crono_name |-> nm[1], marle_name |-> nm[2], lucca_name |-> nm[3],
     robo_name |-> nm[4], frog_name |-> nm[5], ayla_name |-> nm[6],
     magus_name |-> nm[7], epoch_name |-> nm[8],
     stereo_audio |-> b[1], save_menu_cursor |-> b[2], save_battle_cursor |-> b[3],
     skill_item_info |-> b[4], consistent_paging |-> b[5],
     battle_speed |-> speed, background_selection |-> background,
     battle_message_speed |-> msg, battle_gauge_style |-> gauge]

EmptyForm ==
    RomForm({}, [i \in 1..8 |-> None], [i \in 1..5 |-> None], None, None, None, None)

\* a form with every field set and in range
FullForm ==
    RomForm({"reduce_flashes", "auto_run"},
            <<Some(<<"a">>), Some(<<"Z", "7">>), Some(<<"a", "Z", "7", "a", "Z">>),
              Some(<<"7">>), Some(<<"Z">>), Some(<<"a", "a">>), Some(<<"7", "7">>),
              Some(<<"a", "7">>)>>,
            <<Some(FALSE), Some(TRUE), Some(TRUE), Some(FALSE), Some(TRUE)>>,
            Some(8), Some(1), Some(3), Some(2))

\* a form with names that are not valid and numbers that are out of range or 0
OddForm ==
    RomForm({"quiet_mode", "zenan_alt_battle_music", "death_peak_alt_music"},
            <<Some(<<"a", "a", "a", "a", "a", "a">>), Some(<<"a", "-">>), Some(EmptyStr),
              None, Some(<<"-">>), Some(<<"Z", "7", "Z", "7", "Z", "7">>), Some(<<"a">>),
              Some(<<"7", "-", "7">>)>>,
            <<Some(TRUE), None, Some(FALSE), None, Some(FALSE)>>,
            Some(12), Some(0), Some(-3), Some(5))

RomForms == {FullForm, OddForm}

\* for name, flag in cos_flag_dict.items(): if form.cleaned_data[name]: cos_flags |= flag
CosFlags(form) ==
    {cos_flag_dict[i][2] : i \in {j \in 1..Len(cos_flag_dict) : cos_flag_dict[j][1] \in form.cos}}

\* if form.cleaned_data[x] is not None: settings.ctoptions.x = form.cleaned_data[x]
BoolOption(old, field) == IF ~IsNone(field) THEN Val(field) ELSE old

\* if form.cleaned_data[x]: settings.ctoptions.x = clamp(form.cleaned_data[x] - 1, 0, 7)
IntOption(old, field) ==
    IF ~IsNone(field) /\ Val(field) # 0 THEN clamp(Val(field) - 1, 0, 7) ELSE old

\* if form.cleaned_data[x] is not None: ... = clamp(form.cleaned_data[x], 0, 2)
GaugeOption(old, field) == IF ~IsNone(field) THEN clamp(Val(field), 0, 2) ELSE old

\* the body of "if form is not None:" in set_settings_and_config
ApplyForm(settings, form) ==
    [settings EXCEPT
        !.cosmetic_flags = CosFlags(form),
        !.names = <<get_character_name(form.crono_name, CronoName),
                    get_character_name(form.marle_name, MarleName),
                    get_character_name(form.lucca_name, LuccaName),
                    get_character_name(form.robo_name, RoboName),
                    get_character_name(form.frog_name, FrogName),
                    get_character_name(form.ayla_name, AylaName),
                    get_character_name(form.magus_name, MagusName),
                    get_character_name(form.epoch_name, EpochName)>>,
        !.ctoptions = [
            stereo_audio |-> BoolOption(@.stereo_audio, form.stereo_audio),
            save_menu_cursor |-> BoolOption(@.save_menu_cursor, form.save_menu_cursor),
            save_battle_cursor |-> BoolOption(@.save_battle_cursor, form.save_battle_cursor),
            skill_item_info |-> BoolOption(@.skill_item_info, form.skill_item_info),
            consistent_paging |-> BoolOption(@.consistent_paging, form.consistent_paging),
            battle_speed |-> IntOption(@.battle_speed, form.battle_speed),
            menu_background |-> IntOption(@.menu_background, form.background_selection),
            battle_msg_speed |-> IntOption(@.battle_msg_speed, form.battle_message_speed),
            battle_gauge_style |-> GaugeOption(@.battle_gauge_style, form.battle_gauge_style)]]

\* "if form is not None:" (form is an Optional RomForm)
ApplyOptionalForm_noguard(settings, form) ==
    ApplyForm(settings, IF IsNone(form) THEN EmptyForm ELSE Val(form))

ApplyOptionalForm(settings, form) ==
    IF ~IsNone(form) THEN ApplyForm(settings, Val(form)) ELSE settings

\* randomizer.read_names(): the names bundled with the randomizer
Names == {<<"a">>, <<"b">>}

\* get_random_seed: "".join(random.choice(names) for i in range(2)), every outcome
get_random_seed == {n1 \o n2 : n1 \in Names, n2 \in Names}

\* seed = settings.seed; new_seed = seed; while seed == new_seed: new_seed = get_random_seed()
NewSeedChoices_noloop(seed) == get_random_seed

NewSeedChoices(seed) == {new_seed \in get_random_seed : new_seed # seed}

\* datetime.datetime.now().microsecond, some of 0 .. 999999
Microseconds == {0, 42}

\* nonce = str(datetime.datetime.now().microsecond)
Nonce(us) == StrOfNat(us)

\* rset.GameFlags.MYSTERY in settings.gameflags (configure_seed_from_settings)
IsMystery_never(settings) == FALSE

IsMystery(settings) == "MYSTERY" \in settings.gameflags

\* the seed that settings hold while set_random_config runs (configure_seed_from_settings)
SeedForConfigFromSettings_nononce(new_seed, is_race_seed, nonce) == new_seed

SeedForConfigFromSettings(new_seed, is_race_seed, nonce) ==
    IF is_race_seed THEN new_seed \o nonce ELSE new_seed

\* the seed that settings hold while set_random_config runs (configure_seed_from_form)
SeedForConfigFromForm(seed, spoiler_log, nonce) ==
    IF spoiler_log THEN seed ELSE seed \o nonce

\* self.randomizer.set_random_config(): the config is generated from the settings the
\* randomizer holds at that moment, and the call is counted
SetRandomConfig(r, h) ==
    [r EXCEPT !.config = Some([generated_from |-> h[Val(r.settings)].seed]),
              !.calls = @ + 1]

\* the Settings object that __convert_form_to_settings creates
FormRef == 0
\* the Settings objects the caller holds (loaded from a stored game)
CallerRefs == {1, 2}

MysteryText == <<"M", "y", "s", "t", "e", "r", "y", " ", "s", "e", "e", "d", "!", "\n">>
SeedLabel == <<"S", "e", "e", "d", ":", " ">>

\* what rando.write_settings_spoilers writes (the randomizer library's text)
SpoilerTexts == {EmptyStr, <<"M", "o", "d", "e", "\n">>}

\* the body of get_share_details after the Randomizer is built
ShareDetails_always_seed(settings, text) ==
    [buffer |-> SeedLabel \o settings.seed \o <<"\n">> \o text, spoilers |-> TRUE]

ShareDetails(settings, text) ==
    IF "MYSTERY" \in settings.gameflags
    THEN [buffer |-> MysteryText, spoilers |-> FALSE]
    ELSE [buffer |-> SeedLabel \o settings.seed \o <<"\n">> \o text, spoilers |-> TRUE]

\* a GenerateForm's cleaned_data: preset (here the gameflags it holds), seed, spoiler_log
GenerateForms ==
    [preset : {{"BUCKET_LIST"}}, seed : {EmptyStr, <<"x">>}, spoiler_log : BOOLEAN]

\* configs of stored games, as the caller passes them in
StoredConfigs == {[generated_from |-> <<"s", "t", "o", "r", "e", "d">>]}

NoCall ==
    [op |-> "none", sid |-> None, race |-> FALSE, nonce |-> EmptyStr, result |-> "ok",
     form |-> None, buffer |-> EmptyStr, spoilers |-> FALSE]

\* __convert_form_to_settings
convert_form_to_settings(form, random_seed) ==
    NewSettings(IF form.seed = EmptyStr THEN random_seed ELSE form.seed, form.preset)

(***************************************************************************)
(* The operations of a RandomizerInterface instance.                       *)
(***************************************************************************)
configure_seed_from_form(form, random_seed, us) ==
    /\ rnd.calls < MaxCalls
    /\ LET settings == convert_form_to_settings(form, random_seed)
           h1 == [i \in DOMAIN heap \cup {FormRef} |->
                     IF i = FormRef THEN settings ELSE heap[i]]
           r1 == [rnd EXCEPT !.settings = Some(FormRef)]
           nonce == IF form.spoiler_log THEN EmptyStr ELSE Nonce(us)
           seed == h1[FormRef].seed
           h2 == [h1 EXCEPT ![FormRef].seed =
                     SeedForConfigFromForm(seed, form.spoiler_log, nonce)]
           r2 == SetRandomConfig(r1, h2)
           h3 == [h2 EXCEPT ![FormRef].seed = seed]
       IN  /\ heap' = h3
           /\ rnd' = r2
           /\ last' = [NoCall EXCEPT !.op = "configure_seed_from_form",
                          !.sid = Some(FormRef), !.race = ~form.spoiler_log,
                          !.nonce = nonce]
    /\ UNCHANGED <<store, held, expected, arg, ret>>

configure_seed_from_settings(sid, is_race_seed, us) ==
    /\ IsMystery(heap[sid]) \/ rnd.calls < MaxCalls
    /\ IF IsMystery(heap[sid])
       THEN /\ last' = [NoCall EXCEPT !.op = "configure_seed_from_settings",
                           !.sid = Some(sid), !.race = is_race_seed,
                           !.result = "InvalidSettingsException"]
            /\ UNCHANGED <<heap, rnd>>
       ELSE \E new_seed \in NewSeedChoices(heap[sid].seed) :
               LET r1 == [rnd EXCEPT !.settings = Some(sid)]
                   h1 == [heap EXCEPT ![sid].seed = new_seed]
                   nonce == IF is_race_seed THEN Nonce(us) ELSE EmptyStr
                   h2 == [h1 EXCEPT ![sid].seed =
                             SeedForConfigFromSettings(new_seed, is_race_seed, nonce)]
                   r2 == SetRandomConfig(r1, h2)
                   h3 == [h2 EXCEPT ![sid].seed = new_seed]
               IN  /\ heap' = h3
                   /\ rnd' = r2
                   /\ last' = [NoCall EXCEPT !.op = "configure_seed_from_settings",
                                  !.sid = Some(sid), !.race = is_race_seed,
                                  !.nonce = nonce]
    /\ UNCHANGED <<store, held, expected, arg, ret>>

set_settings_and_config(sid, config, form) ==
    /\ heap' = [heap EXCEPT ![sid] = ApplyOptionalForm(@, form)]
    /\ rnd' = [rnd EXCEPT !.settings = Some(sid), !.config = Some(config)]
    /\ last' = [NoCall EXCEPT !.op = "set_settings_and_config", !.sid = Some(sid),
                   !.form = form]
    /\ UNCHANGED <<store, held, expected, arg, ret>>

get_share_details(config, sid, text) ==
    /\ LET out == ShareDetails(heap[sid], text)
       IN  last' = [NoCall EXCEPT !.op = "get_share_details", !.sid = Some(sid),
                       !.buffer = out.buffer, !.spoilers = out.spoilers]
    /\ UNCHANGED <<heap, rnd, store, held, expected, arg, ret>>

\* the module as imported: enums_map as written, no request holding it
EnumsInit ==
    /\ store = [o \in {EnumsMapRef} |-> enums_map]
    /\ held = [r \in {1, 2} |-> None]
    /\ expected = [r \in {1, 2} |-> <<>>]

\* no static method under way
PureIdle ==
    /\ arg = [fn |-> "none"]
    /\ ret = None

\* RandomizerInterface(rom_data)
NewInterface == rnd = [settings |-> None, config |-> None, calls |-> 0]

\* RandomizerInterface(rom_data), and the Settings objects the caller holds
Init ==
    /\ \E g1 \in {{}, {"MYSTERY"}} :
          heap = [i \in CallerRefs |->
                    IF i = 1 THEN NewSettings(<<"a", "a">>, g1)
                    ELSE NewSettings(<<"m">>, {"MYSTERY", "BUCKET_LIST"})]
    /\ NewInterface
    /\ last = NoCall
    /\ EnumsInit
    /\ PureIdle

Next ==
    \/ \E form \in GenerateForms, random_seed \in get_random_seed, us \in Microseconds :
          configure_seed_from_form(form, random_seed, us)
    \/ \E sid \in DOMAIN heap, is_race_seed \in BOOLEAN, us \in Microseconds :
          configure_seed_from_settings(sid, is_race_seed, us)
    \/ \E sid \in CallerRefs, config \in StoredConfigs,
          form \in {None} \cup {Some(f) : f \in RomForms} :
          set_settings_and_config(sid, config, form)
    \/ \E sid \in DOMAIN heap, config \in StoredConfigs, text \in SpoilerTexts :
          get_share_details(config, sid, text)

Spec == Init /\ [][Next]_vars

(***************************************************************************)
(* Two requests served by one process: both import the same module, so     *)
(* both read the one enums_map object.  What a request does with the       *)
(* mapping it was given is the caller's code: it adds or removes an entry. *)
(***************************************************************************)
Requests == {1, 2}
AddedEntries == {<<"extra", ListOf(<<"x">>)>>}
RemovedKeys == {"roflags", "techorder", "extra"}

GetEnumsMap(r) ==
    /\ held' = [held EXCEPT ![r] = Some(get_enums_map)]
    /\ expected' = [expected EXCEPT ![r] = store[get_enums_map]]
    /\ UNCHANGED <<heap, rnd, last, store, arg, ret>>

\* m = get_enums_map(); m[key] = value
CallerAddsEntry(r, e) ==
    /\ ~IsNone(held[r])
    /\ store' = [store EXCEPT ![Val(held[r])] = DictSet(@, e[1], e[2])]
    /\ expected' = [expected EXCEPT ![r] = DictSet(@, e[1], e[2])]
    /\ UNCHANGED <<heap, rnd, last, held, arg, ret>>

\* m = get_enums_map(); m.pop(key, None)
CallerRemovesEntry(r, key) ==
    /\ ~IsNone(held[r])
    /\ store' = [store EXCEPT ![Val(held[r])] = DictPop(@, key)]
    /\ expected' = [expected EXCEPT ![r] = DictPop(@, key)]
    /\ UNCHANGED <<heap, rnd, last, held, arg, ret>>

InitEnums ==
    /\ heap = [i \in CallerRefs |-> NewSettings(<<"a", "a">>, {})]
    /\ NewInterface
    /\ last = NoCall
    /\ EnumsInit
    /\ PureIdle

NextEnums ==
    \/ \E r \in Requests : GetEnumsMap(r)
    \/ \E r \in Requests, e \in AddedEntries : CallerAddsEntry(r, e)
    \/ \E r \in Requests, key \in RemovedKeys : CallerRemovesEntry(r, key)

SpecEnums == InitEnums /\ [][NextEnums]_vars

(***************************************************************************)
(* The static and class methods, each applied to inputs from bounded sets. *)
(***************************************************************************)
ClampInputs ==
    [fn : {"clamp"}, value : -1..MaxInt, min_val : -1..MaxInt, max_val : -1..MaxInt]

NameInputs ==
    [fn : {"get_character_name"},
     name : {None} \cup {Some(n) : n \in SeqsUpTo(NameChars, MaxNameLen)},
     default_name : {CronoName, EpochName}]

ObjectiveDescs == {"Defeat Magus", "Recruit 5 characters"}

\* the parts of a RandoConfig other than its objectives
ConfigBodies ==
    {[char_assign_dict |-> <<>>, reassign |-> <<>>, key_item_locations |-> <<>>,
      boss_assign_dict |-> <<>>, twin_name |-> "none", proof |-> <<>>],
     [char_assign_dict |-> << <<"Cathedral", "Lucca">>, <<"Castle", "Frog">> >>,
      reassign |-> [c \in {"Lucca", "Frog"} |-> IF c = "Lucca" THEN "Robo" ELSE "Frog"],
      key_item_locations |-> << <<"Zenan Bridge", "Gate Key">> >>,
      boss_assign_dict |-> << <<"Manoria Cathedral", "YAKRA">>,
                              <<"Ocean Palace", "TWIN_BOSS">> >>,
      twin_name |-> "Golem",
      proof |-> <<"G", "O", ":", " ", "a", "\n", "1", ":", "b", "\n", "\n", "c", ":",
                  "\n", ":", " ", " ", "\n", "G", "O", ":">>]}

SpoilerInputs ==
    {[fn |-> "get_web_spoiler_log",
      settings |-> [gameflags |-> g, num_objectives |-> n],
      config |-> [objectives |-> o, char_assign_dict |-> b.char_assign_dict,
                  reassign |-> b.reassign, key_item_locations |-> b.key_item_locations,
                  boss_assign_dict |-> b.boss_assign_dict, twin_name |-> b.twin_name,
                  proof |-> b.proof]] :
        g \in SUBSET {"BUCKET_LIST", "MYSTERY"}, n \in 0..(MaxObjectives + 1),
        o \in SeqsUpTo(ObjectiveDescs, MaxObjectives), b \in ConfigBodies}

InvInputs == {[fn |-> "get_inv_enums_map"]}

CallClamp ==
    /\ arg.fn = "clamp" /\ IsNone(ret)
    /\ ret' = Some(clamp(arg.value, arg.min_val, arg.max_val))
    /\ UNCHANGED <<heap, rnd, last, store, held, expected, arg>>

CallGetCharacterName ==
    /\ arg.fn = "get_character_name" /\ IsNone(ret)
    /\ ret' = Some(get_character_name(arg.name, arg.default_name))
    /\ UNCHANGED <<heap, rnd, last, store, held, expected, arg>>

CallGetWebSpoilerLog ==
    /\ arg.fn = "get_web_spoiler_log" /\ IsNone(ret)
    /\ ret' = Some(get_web_spoiler_log(arg.settings, arg.config))
    /\ UNCHANGED <<heap, rnd, last, store, held, expected, arg>>

CallGetInvEnumsMap ==
    /\ arg.fn = "get_inv_enums_map" /\ IsNone(ret)
    /\ ret' = Some(get_inv_enums_map(store[EnumsMapRef]))
    /\ UNCHANGED <<heap, rnd, last, store, held, expected, arg>>

InitPure ==
    /\ heap = [i \in CallerRefs |-> NewSettings(<<"a", "a">>, {})]
    /\ NewInterface
    /\ last = NoCall
    /\ EnumsInit
    /\ arg \in ClampInputs \cup NameInputs \cup SpoilerInputs \cup InvInputs
    /\ ret = None

NextPure ==
    \/ CallClamp
    \/ CallGetCharacterName
    \/ CallGetWebSpoilerLog
    \/ CallGetInvEnumsMap

SpecPure == InitPure /\ [][NextPure]_vars

(***************************************************************************)
(* Properties.                                                             *)
(***************************************************************************)
IsList(v) == DOMAIN v = 1..Len(v)
IsPrefix(p, q) == Len(p) <= Len(q) /\ SubSeq(q, 1, Len(p)) = p
LastSid == Val(last.sid)

\* C1: configure_seed_from_settings on a settings object whose gameflags hold MYSTERY
\* fails with InvalidSettingsException, for either value of is_race_seed, and leaves
\* every settings object (so the seed of the one passed) and the randomizer's
\* settings, config and set_random_config count as they were.
C1_MysteryCloneFails ==
    [][(/\ last'.op = "configure_seed_from_settings"
        /\ "MYSTERY" \in heap[Val(last'.sid)].gameflags)
       => (/\ last'.result = "InvalidSettingsException"
           /\ heap' = heap
           /\ rnd' = rnd)]_vars

C1_Witness ==
    /\ last.op = "configure_seed_from_settings"
    /\ last.result = "InvalidSettingsException"
    /\ last.race
    /\ "MYSTERY" \in heap[LastSid].gameflags
    /\ rnd.calls > 0
    /\ rnd.settings # last.sid

\* C2 as stated: for every value, lo and hi, clamp returns lo when value < lo, hi when
\* value > hi, and value otherwise.
C2_ClampAnyBounds ==
    (arg.fn = "clamp" /\ ~IsNone(ret)) =>
        Val(ret) = IF arg.value < arg.min_val THEN arg.min_val
                   ELSE IF arg.value > arg.max_val THEN arg.max_val
                   ELSE arg.value

\* C2 amended: when lo <= hi, clamp returns lo when value < lo, hi when value > hi,
\* and value otherwise.
C2_ClampOrderedBounds ==
    (arg.fn = "clamp" /\ ~IsNone(ret) /\ arg.min_val <= arg.max_val) =>
        Val(ret) = IF arg.value < arg.min_val THEN arg.min_val
                   ELSE IF arg.value > arg.max_val THEN arg.max_val
                   ELSE arg.value

C2_Witness ==
    /\ arg.fn = "clamp" /\ ~IsNone(ret)
    /\ arg.min_val < arg.max_val /\ arg.value > arg.max_val
    /\ Val(ret) = arg.max_val

\* C3: get_character_name returns default_name when the name is None, empty, longer
\* than five characters or holds a character that is not alphanumeric, and the name
\* itself when it is one to five alphanumeric characters.
C3_CharacterName ==
    (arg.fn = "get_character_name" /\ ~IsNone(ret)) =>
        IF \/ IsNone(arg.name)
           \/ Len(Val(arg.name)) = 0
           \/ Len(Val(arg.name)) > 5
           \/ \E i \in 1..Len(Val(arg.name)) : Val(arg.name)[i] \notin Letters \cup Digits
        THEN Val(ret) = arg.default_name
        ELSE Val(ret) = Val(arg.name)

C3_Witness ==
    /\ arg.fn = "get_character_name" /\ ~IsNone(ret)
    /\ arg.name = Some(<<"a", "Z", "7", "a", "Z", "7">>)
    /\ Val(ret) = arg.default_name

C5_RequestsIsolated ==
    \A r \in Requests : ~IsNone(held[r]) => store[Val(held[r])] = expected[r]

\* C6: get_web_spoiler_log returns a dict of exactly the keys characters, key_items,
\* bosses, objectives and spheres, each mapped to a list; objectives is empty without
\* BUCKET_LIST, and else holds the first min(num_objectives, len(config.objectives))
\* objectives in order, named "Objective 1", "Objective 2", ...
C6_SpoilerLogShape ==
    (arg.fn = "get_web_spoiler_log" /\ ~IsNone(ret)) =>
        LET log == Val(ret)
            objectives == DictGet(log, "objectives")
            n == Min2(arg.settings.num_objectives, Len(arg.config.objectives))
        IN  /\ Len(log) = 5
            /\ DictKeys(log) = {"characters", "key_items", "bosses", "objectives", "spheres"}
            /\ \A k \in DictKeys(log) : IsList(DictGet(log, k))
            /\ IF "BUCKET_LIST" \notin arg.settings.gameflags
               THEN objectives = <<>>
               ELSE /\ Len(objectives) = n
                    /\ \A i \in 1..n :
                          /\ objectives[i].name = ObjectivePrefix \o StrOfNat(i)
                          /\ objectives[i].desc = arg.config.objectives[i]

C6_Witness ==
    /\ arg.fn = "get_web_spoiler_log" /\ ~IsNone(ret)
    /\ "BUCKET_LIST" \in arg.settings.gameflags
    /\ arg.settings.num_objectives = 2
    /\ Len(arg.config.objectives) = 3
    /\ Len(DictGet(Val(ret), "objectives")) = 2
    /\ Len(DictGet(Val(ret), "spheres")) = 5

\* C7: the seed that settings hold when set_random_config is called is, for a race
\* seed, the seed value followed by a non-empty nonce, and for a non-race seed the
\* seed value itself; so the two differ.
C7_RaceSeedDiffers ==
    (last.op \in {"configure_seed_from_form", "configure_seed_from_settings"}
        /\ last.result = "ok") =>
        LET seed == heap[LastSid].seed
            used == Val(rnd.config).generated_from
        IN  IF last.race
            THEN /\ last.nonce # <<>>
                 /\ used = seed \o last.nonce
                 /\ used # seed
            ELSE /\ last.nonce = <<>>
                 /\ used = seed

C7_Witness ==
    /\ last.op = "configure_seed_from_settings"
    /\ last.result = "ok"
    /\ last.race
    /\ last.nonce = <<"0">>
    /\ Val(rnd.config).generated_from = heap[LastSid].seed \o <<"0">>

\* C8: when configure_seed_from_settings returns, the seed of the settings object is
\* a randomly drawn seed other than the one it held before the call, and the
\* randomizer's settings are that same object.
C8_SeedReplaced ==
    [][(last'.op = "configure_seed_from_settings" /\ last'.result = "ok")
       => (/\ heap'[Val(last'.sid)].seed # heap[Val(last'.sid)].seed
           /\ heap'[Val(last'.sid)].seed \in get_random_seed
           /\ rnd'.settings = last'.sid)]_vars

C8_Witness ==
    /\ last.op = "configure_seed_from_settings"
    /\ last.result = "ok"
    /\ rnd.calls = 2
    /\ rnd.settings = Some(1)
    /\ heap[1].seed = <<"a", "a">>

\* C9: for a settings object with the MYSTERY flag, whatever its seed and other
\* settings, get_share_details returns exactly "Mystery seed!\n" and does not call
\* write_settings_spoilers; otherwise the buffer starts with "Seed: ", the seed and
\* a newline.
C9_MysteryShareDetails ==
    last.op = "get_share_details" =>
        IF "MYSTERY" \in heap[LastSid].gameflags
        THEN /\ last.buffer = <<"M", "y", "s", "t", "e", "r", "y", " ",
                                "s", "e", "e", "d", "!", "\n">>
             /\ ~last.spoilers
        ELSE IsPrefix(<<"S", "e", "e", "d", ":", " ">> \o heap[LastSid].seed \o <<"\n">>,
                      last.buffer)

C9_Witness ==
    /\ last.op = "get_share_details"
    /\ "MYSTERY" \in heap[LastSid].gameflags
    /\ heap[LastSid].cosmetic_flags # {}
    /\ Len(last.buffer) = 14

\* C10: get_inv_enums_map holds exactly the dict-valued entries of enums_map,
\* gameflags and roflags, each with keys and values swapped: looking up
\* enums_map[key][k] in the inverted dict gives k, and it has as many entries.
C10_InverseLookup ==
    (arg.fn = "get_inv_enums_map" /\ ~IsNone(ret)) =>
        LET inv == Val(ret)
            m == store[EnumsMapRef]
        IN  /\ DictKeys(inv) = {"gameflags", "roflags"}
            /\ DictKeys(inv) = {k \in DictKeys(m) : DictGet(m, k).kind = "dict"}
            /\ Len(inv) = 2
            /\ \A key \in DictKeys(inv) :
                  LET mapping == DictGet(m, key).items
                      inverted == DictGet(inv, key)
                  IN  /\ Len(inverted) = Len(mapping)
                      /\ \A k \in DictKeys(mapping) :
                            /\ DictGet(mapping, k) \in DictKeys(inverted)
                            /\ DictGet(inverted, DictGet(mapping, k)) = k

C10_Witness ==
    /\ arg.fn = "get_inv_enums_map" /\ ~IsNone(ret)
    /\ DictGet(DictGet(Val(ret), "gameflags"), "GameFlags.MYSTERY") = "mystery_seed"
    /\ Len(DictGet(Val(ret), "gameflags")) = 38

====
